---- MODULE Spec2Model ----
(***************************************************************************)
(* pim: conversion of Source records into Prometheus file_sd target files. *)
(*                                                                         *)
(* Four specifications share this module:                                  *)
(*   SpecNew    TargetGroup::new as a pure function of its arguments       *)
(*   SpecMerge  one TargetFile under a sequence of add_target calls        *)
(*   Spec       one run of the binary: handler -> exporter -> exit         *)
(*   SpecInputs Cli::inputs: get_sources and from_dir on the source path   *)
(***************************************************************************)
EXTENDS Naturals, Sequences, FiniteSets, TLC

VARIABLES
    pc,                \* position of the process in the specification at hand
    args,              \* SpecNew: the arguments of TargetGroup::new
    result,            \* SpecNew: the TargetGroup it returned
    self_targets,      \* SpecMerge: TargetFile.targets of the file under test
    cand,              \* SpecMerge: the argument of the last add_target call
    adds,              \* SpecMerge: number of add_target calls made
    contribs,          \* SpecMerge: the arguments of all add_target calls, in call order
    output,            \* Spec: the Output built by Cli::output
    format,            \* Spec: the OutputFormat of the run
    target,            \* Spec: the --target argument (a path)
    stdoutIsTerminal,  \* Spec: std::io::stdout().is_terminal()
    fs,                \* Spec: regular files, path -> [exists, data]
    stdout,            \* Spec: what has been written to standard output
    target_files,      \* Spec: TargetFiles.files, job -> TargetFile
    ninputs,           \* Spec: SourceFile.inputs.len()
    ii,                \* Spec: inputs already decoded by read_sources
    nsrc,              \* Spec: SourceFile.sources.len()
    si,                \* Spec: Sources already visited by SourceFile::into_targets
    cur,               \* Spec: the Source visited last
    listed,            \* Spec: the job names listed by the Sources visited so far
    createFailed,      \* Spec: a File::create of this run has failed
    written,           \* Spec: jobs whose TargetFile::write returned Ok, in call order
    wcalls,            \* Spec: jobs on which TargetFile::write was called, in call order
    lastData,          \* Spec: the buffer handed to the writer by the last write
    err,               \* Spec: the error the run returned ("None" while there is none)
    exit,              \* Spec: how the process ended: exit code and what it printed
    input,             \* Spec: the Input read_sources is decoding, and with which decoder
    source,            \* SpecInputs: the --source argument (a path, "-" when absent)
    firstLine,         \* SpecInputs: path of a file or of stdin -> what its first line is
    stdinIsTerminal,   \* SpecInputs: std::io::stdin().is_terminal()
    dirReadable,       \* SpecInputs: a read on a directory handle returns no bytes, not an error
    todo,              \* SpecInputs: directory entries from_dir has still to visit, in order
    inputs             \* SpecInputs: the Vec<Input> collected so far

newVars   == <<args, result>>
mergeVars == <<self_targets, cand, adds, contribs>>
runVars   == <<output, format, target, stdoutIsTerminal, fs, stdout, target_files,
               ninputs, ii, nsrc, si, cur, listed, createFailed, written, wcalls,
               lastData, err, exit, input>>
gatherVars == <<source, firstLine, stdinIsTerminal, dirReadable, todo, inputs>>
vars      == <<pc, newVars, mergeVars, runVars, gatherVars>>

(***************************************************************************)
(* Bounds and input domains                                                *)
(***************************************************************************)
MaxAdds    == 3     \* add_target calls in SpecMerge
MaxInputs  == 2     \* input documents of one run
MaxSources == 2     \* Source records of one run, over all documents

\* Job names a Source may list; "" is the empty name, "env" is also a label key.
JobNames   == {"", "env", "node"}
\* BTreeMap<String, _> iterates in ascending byte order of the key.
JobOrder   == <<"", "env", "node">>
LabelKeys  == {"env", "job"}
KeyOrder   == <<"env", "job">>
LabelVals  == {"prod", "node"}

EmptyMap   == [k \in {} |-> ""]
\* every BTreeMap<String, String> over LabelKeys and LabelVals
LabelMaps  == UNION {[D -> LabelVals] : D \in SUBSET LabelKeys}

\* target lists of a Source: empty, overlapping, with an internal duplicate
EndpointLists == {<<>>, <<"a">>, <<"a", "b">>, <<"b", "c">>, <<"c", "c">>}

Range(s) == {s[i] : i \in DOMAIN s}

(***************************************************************************)
(* TargetGroup                                                             *)
(***************************************************************************)
\* BTreeMap::insert: adds the key or replaces the value it had
Insert(m, k, v) == [x \in (DOMAIN m) \cup {k} |-> IF x = k THEN v ELSE m[x]]

\* TargetGroup::new. The test is on the key named by the VALUE of `job`.
TargetGroup_new(job, labels, targets) ==
    LET labels2 == IF job \notin DOMAIN labels
                   THEN Insert(labels, "job", job)
                   ELSE labels
    IN  [job |-> job, labels |-> labels2, targets |-> targets]

\* The strings fed to the hasher by TargetGroup::hash, in order: the job, then
\* key and value of every label in key order. Each str is hashed with a 0xff
\* terminator, so the stream determines this sequence; DefaultHasher::finish
\* is taken to be injective on the streams of this model.
RECURSIVE HashLabels(_, _)
HashLabels(labels, i) ==
    IF i > Len(KeyOrder) THEN <<>>
    ELSE (IF KeyOrder[i] \in DOMAIN labels
          THEN <<KeyOrder[i], labels[KeyOrder[i]]>>
          ELSE <<>>) \o HashLabels(labels, i + 1)

hash_with_targets(tg) == <<tg.job>> \o HashLabels(tg.labels, 1) \o <<"|">> \o tg.targets

\* hash over the job alone
hash_job_only(tg) == <<tg.job>>

hash(tg) == <<tg.job>> \o HashLabels(tg.labels, 1)

(***************************************************************************)
(* TargetFile::add_target                                                  *)
(***************************************************************************)
\* inner loop with the contains test removed
RECURSIVE merge_push_all(_, _, _)
merge_push_all(old, new, i) ==
    IF i > Len(new) THEN old
    ELSE merge_push_all(Append(old, new[i]), new, i + 1)

\* inner loop with the contains test made on the list as it was before the merge
merge_targets_stale_test(old, new, i) ==
    old \o SelectSeq(new, LAMBDA t : t \notin Range(old))

\* inner loop: for t in &target.targets { if !tg.targets.contains(t) { push } }
RECURSIVE merge_targets(_, _, _)
merge_targets(old, new, i) ==
    IF i > Len(new) THEN old
    ELSE merge_targets(IF new[i] \in Range(old) THEN old ELSE Append(old, new[i]),
                       new, i + 1)

\* outer loop: the first group with an equal hash takes the merge and the
\* method returns; with none, the candidate is pushed.
RECURSIVE add_target_from(_, _, _)
add_target_from(targets, tgt, i) ==
    IF i > Len(targets) THEN Append(targets, tgt)
    ELSE IF hash(targets[i]) = hash(tgt)
         THEN [targets EXCEPT ![i].targets = merge_targets(targets[i].targets, tgt.targets, 1)]
         ELSE add_target_from(targets, tgt, i + 1)

\* add_target putting a group of a new identity in front of the list
add_target_in_front(targets, tgt) ==
    IF \E i \in DOMAIN targets : hash(targets[i]) = hash(tgt)
    THEN LET i == CHOOSE k \in DOMAIN targets :
                      /\ hash(targets[k]) = hash(tgt)
                      /\ \A h \in 1..(k - 1) : hash(targets[h]) # hash(tgt)
         IN  [targets EXCEPT ![i].targets = merge_targets(targets[i].targets, tgt.targets, 1)]
    ELSE <<tgt>> \o targets

add_target(targets, tgt) == add_target_from(targets, tgt, 1)

(***************************************************************************)
(* SpecNew: TargetGroup::new on every argument triple                      *)
(***************************************************************************)
NoGroup == [job |-> "", labels |-> EmptyMap, targets |-> <<>>]
NoSource == [jobs |-> <<>>, labels |-> EmptyMap, targets |-> <<>>]

NoInput == [kind |-> "None", ext |-> "", decoder |-> "None",
            lines |-> 0, valid |-> FALSE, received |-> 0]

\* the process has not ended
Running == [exited |-> FALSE, code |-> 0, message |-> "None"]

RunIdle ==
    /\ output = [path |-> "", kind |-> "None", format |-> "Json", pretty |-> FALSE, pos |-> 0]
    /\ format = "Json"
    /\ target = ""
    /\ stdoutIsTerminal = FALSE
    /\ fs = EmptyMap
    /\ stdout = <<>>
    /\ target_files = EmptyMap
    /\ ninputs = 0 /\ ii = 0 /\ nsrc = 0 /\ si = 0
    /\ cur = NoSource
    /\ listed = {}
    /\ createFailed = FALSE
    /\ written = <<>> /\ wcalls = <<>> /\ lastData = <<>>
    /\ err = "None"
    /\ exit = Running
    /\ input = NoInput

GatherIdle ==
    /\ source = "" /\ firstLine = EmptyMap /\ stdinIsTerminal = FALSE /\ dirReadable = FALSE
    /\ todo = <<>> /\ inputs = <<>>

MergeIdle == self_targets = <<>> /\ cand = NoGroup /\ adds = 0 /\ contribs = <<>>
NewIdle   == args = NoGroup /\ result = NoGroup

InitNew ==
    /\ pc = "call"
    /\ args \in [job : JobNames, labels : LabelMaps, targets : EndpointLists]
    /\ result = NoGroup
    /\ MergeIdle /\ RunIdle /\ GatherIdle

CallNew ==
    /\ pc = "call"
    /\ result' = TargetGroup_new(args.job, args.labels, args.targets)
    /\ pc' = "ret"
    /\ UNCHANGED <<args, mergeVars, runVars, gatherVars>>

NextNew == CallNew
SpecNew == InitNew /\ [][NextNew]_vars

(***************************************************************************)
(* SpecMerge: one TargetFile, any sequence of add_target calls             *)
(***************************************************************************)
\* label maps the candidates are built from
MergeLabels == {EmptyMap, [k \in {"env"} |-> "prod"]}
\* candidates are TargetGroups as the constructor makes them
Candidates ==
    {TargetGroup_new(j, l, t) : j \in {"env", "node"}, l \in MergeLabels, t \in EndpointLists}

InitMerge ==
    /\ pc = "merge"
    /\ self_targets = <<>>
    /\ cand = NoGroup
    /\ adds = 0
    /\ contribs = <<>>
    /\ NewIdle /\ RunIdle /\ GatherIdle

AddTarget ==
    /\ pc = "merge"
    /\ adds < MaxAdds
    /\ \E tgt \in Candidates :
         /\ cand' = tgt
         /\ self_targets' = add_target(self_targets, tgt)
         /\ contribs' = Append(contribs, tgt)
    /\ adds' = adds + 1
    /\ UNCHANGED <<pc, newVars, runVars, gatherVars>>

NextMerge == AddTarget
SpecMerge == InitMerge /\ [][NextMerge]_vars

(***************************************************************************)
(* Output sink: core/output.rs, core/io.rs                                 *)
(***************************************************************************)
Formats    == {"Json", "Yaml"}
StdoutPath == "<stdout>"
OutFile    == "out.json"
OutDir     == "dir"
\* Path::is_dir() is true of exactly these paths
Dirs       == {OutDir}
\* the values of --target: absent (the sentinel), a regular file, a directory
TargetArgs == {StdoutPath, OutFile, OutDir}

\* OutputFormat::extension
extension(f) == IF f = "Json" THEN "json" ELSE "yml"

\* construct_filebuf with the job left out of the file name
construct_filebuf_shared(path, job, f) == path \o "/targets." \o extension(f)

\* construct_filebuf: PathBuf::push of "<job>_targets.<ext>"
construct_filebuf(path, job, f) == path \o "/" \o job \o "_targets." \o extension(f)

FilePaths ==
    {OutFile} \cup {construct_filebuf(OutDir, j, f) : j \in JobNames \ {""}, f \in Formats}

\* one unit of file content
Tok(t, enc, job, labels, targets) ==
    [t |-> t, enc |-> enc, job |-> job, labels |-> labels, targets |-> targets]
Stale == Tok("stale", "", "", EmptyMap, <<>>)
Hole  == Tok("nul", "", "", EmptyMap, <<>>)

NoFile == [exists |-> FALSE, data |-> <<>>]
\* The file system before the run: the output file and the env job's files
\* exist with content of an earlier run, the node job's files do not exist.
InitFiles ==
    [p \in FilePaths |->
        IF p = OutFile \/ p \in {construct_filebuf(OutDir, "env", f) : f \in Formats}
        THEN [exists |-> TRUE, data |-> <<Stale, Stale, Stale, Stale>>]
        ELSE NoFile]

\* OutputKind::new
OutputKind_new(path) ==
    IF path = StdoutPath THEN "Stdout"
    ELSE IF path \in Dirs THEN "Directory"
    ELSE "File"

\* Writer::new, the writer Output::new obtains: nothing to open for stdout and
\* for a directory, File::create otherwise, which creates the file or
\* truncates it, or fails (`fail`) and leaves the file system as it was.
Writer_new(path, files, fail) ==
    IF path = StdoutPath \/ path \in Dirs THEN [err |-> "None", fs |-> files]
    ELSE IF fail THEN [err |-> "Io", fs |-> files]
    ELSE [err |-> "None", fs |-> [files EXCEPT ![path] = [exists |-> TRUE, data |-> <<>>]]]

NoOutput == [path |-> "", kind |-> "None", format |-> "Json", pretty |-> FALSE, pos |-> 0]

\* Output::new with stdout always pretty
Output_new_always_pretty(path, f, files, isTerminal, fail) ==
    IF path = StdoutPath
    THEN [err |-> "None", fs |-> files,
          out |-> [path |-> path, kind |-> "Stdout", format |-> f,
                   pretty |-> TRUE, pos |-> 0]]
    ELSE LET w == Writer_new(path, files, fail)
         IN  IF w.err # "None"
             THEN [err |-> w.err, fs |-> files, out |-> NoOutput]
             ELSE [err |-> "None", fs |-> w.fs,
                   out |-> [path |-> path, kind |-> OutputKind_new(path), format |-> f,
                            pretty |-> TRUE, pos |-> 0]]

\* Output::new. `pos` is the offset of the file handle the Output owns.
Output_new(path, f, files, isTerminal, fail) ==
    IF path = StdoutPath
    THEN [err |-> "None", fs |-> files,
          out |-> [path |-> path, kind |-> "Stdout", format |-> f,
                   pretty |-> isTerminal, pos |-> 0]]
    ELSE LET w == Writer_new(path, files, fail)
         IN  IF w.err # "None"
             THEN [err |-> w.err, fs |-> files, out |-> NoOutput]
             ELSE [err |-> "None", fs |-> w.fs,
                   out |-> [path |-> path, kind |-> OutputKind_new(path), format |-> f,
                            pretty |-> TRUE, pos |-> 0]]

\* #[derive(Serialize)] of TargetGroup: `job` is skipped, labels and targets
\* are emitted, in the encoding `enc`
Serialize(tg, enc) == Tok("group", enc, "", tg.labels, tg.targets)

\* serde_json::to_string ("json"), serde_json::to_string_pretty ("json_pretty")
\* and serde_yaml::to_string ("yaml") of a Vec<TargetGroup>
to_string(content, enc) ==
    <<Tok("open", enc, "", EmptyMap, <<>>)>>
        \o [i \in 1..Len(content) |-> Serialize(content[i], enc)]
        \o <<Tok("close", enc, "", EmptyMap, <<>>)>>

FrameJob(job) == Tok("job_line", "", job, EmptyMap, <<>>)     \* "<job>:\n"
FrameEnd      == Tok("newline", "", "", EmptyMap, <<>>)       \* "\n"

\* raw: the bytes handed to the writer
raw(content, f) == to_string(content, IF f = "Json" THEN "json" ELSE "yaml")

\* pretty: the bytes handed to the writer
pretty(content, f, job, is_stdout) ==
    (IF is_stdout THEN <<FrameJob(job)>> ELSE <<>>)
        \o to_string(content, IF f = "Json" THEN "json_pretty" ELSE "yaml")
        \o (IF is_stdout THEN <<FrameEnd>> ELSE <<>>)

\* Output::write: the buffer it builds
Output_write(out, job, content) ==
    IF out.pretty
    THEN pretty(content, out.format, job, out.kind = "Stdout")
    ELSE raw(content, out.format)

\* a write of `data` through a file handle at offset `pos`
WriteAt(old, pos, data) ==
    LET n == IF Len(old) > pos + Len(data) THEN Len(old) ELSE pos + Len(data)
    IN  [k \in 1..n |->
            IF k > pos /\ k <= pos + Len(data) THEN data[k - pos]
            ELSE IF k <= Len(old) THEN old[k] ELSE Hole]

(***************************************************************************)
(* TargetFile, TargetFiles: app/target.rs; Source: app/source.rs           *)
(***************************************************************************)
NoTargetFile == [job |-> "", output |-> NoOutput, targets |-> <<>>]

\* TargetFile::new
TargetFile_new(job, out, f, files, isTerminal, fail) ==
    LET output_path ==
            IF out.kind = "Stdout" THEN StdoutPath
            ELSE IF out.kind = "File" THEN out.path
            ELSE construct_filebuf(out.path, job, f)
        r == Output_new(output_path, f, files, isTerminal, fail)
    IN  IF r.err # "None"
        THEN [err |-> r.err, fs |-> files, tf |-> NoTargetFile]
        ELSE [err |-> "None", fs |-> r.fs,
              tf |-> [job |-> job, output |-> r.out, targets |-> <<>>]]

\* the Sources a document may hold
JobLists   == {<<>>, <<"env">>, <<"node">>, <<"env", "node">>, <<"node", "env">>,
               <<"node", "">>}
RunLabels  == {EmptyMap, [k \in {"env"} |-> "prod"]}
RunTargets == {<<"a", "b">>, <<"b", "c">>}
Sources    == [jobs : JobLists, labels : RunLabels, targets : RunTargets]
\* the length of the longest job list in JobLists
MaxJobs    == CHOOSE n \in 0..8 : (\A l \in JobLists : Len(l) <= n) /\ (\E l \in JobLists : Len(l) = n)

\* TargetFiles::has_job answering false for every job
has_job_never(files, job) == FALSE

\* TargetFiles::has_job
has_job(files, job) == job \in DOMAIN files

\* Source::into_targets, the loop over self.jobs from index i on. st is
\* [err, fs, files]; failAt is the index of the job whose File::create fails
\* if one is attempted there (0: none fails).
RECURSIVE ExpandJobs(_, _, _, _, _, _, _)
ExpandJobs(src, i, st, out, f, isTerminal, failAt) ==
    IF i > Len(src.jobs) THEN st
    ELSE LET job == src.jobs[i] IN
         IF job = "" THEN [st EXCEPT !.err = "InvalidInputSource"]
         ELSE LET r == IF has_job(st.files, job)
                       THEN [err |-> "None", fs |-> st.fs, tf |-> st.files[job]]
                       ELSE TargetFile_new(job, out, f, st.fs, isTerminal, failAt = i)
              IN  IF r.err # "None" THEN [st EXCEPT !.err = r.err]
                  ELSE LET tg  == TargetGroup_new(job, src.labels, src.targets)
                           tf2 == [r.tf EXCEPT !.targets = add_target(r.tf.targets, tg)]
                       IN  ExpandJobs(src, i + 1,
                                      [err |-> "None", fs |-> r.fs,
                                       files |-> Insert(st.files, job, tf2)],
                                      out, f, isTerminal, failAt)

\* Source::into_targets without the test for an empty job list
Source_into_targets_unchecked(src, out, f, files, filesys, isTerminal, failAt) ==
    ExpandJobs(src, 1, [err |-> "None", fs |-> filesys, files |-> files],
               out, f, isTerminal, failAt)

\* Source::into_targets
Source_into_targets(src, out, f, files, filesys, isTerminal, failAt) ==
    IF src.jobs = <<>>
    THEN [err |-> "InvalidInputSource", fs |-> filesys, files |-> files]
    ELSE ExpandJobs(src, 1, [err |-> "None", fs |-> filesys, files |-> files],
                    out, f, isTerminal, failAt)

\* BTreeMap::iter_mut of TargetFiles.files: descending, as a wrong order would be
SortedKeysDescending(files) ==
    LET asc == SelectSeq(JobOrder, LAMBDA j : j \in DOMAIN files)
    IN  [i \in 1..Len(asc) |-> asc[Len(asc) + 1 - i]]

\* BTreeMap::iter_mut of TargetFiles.files: the keys in ascending order
SortedKeys(files) == SelectSeq(JobOrder, LAMBDA j : j \in DOMAIN files)

(***************************************************************************)
(* Spec: one run of handler and exporter (bin/pim/main.rs)                 *)
(***************************************************************************)
\* The format is an argument of Output::new and TargetFile::new; Cli::output
\* passes the default, the library entry points take either.
Init ==
    /\ pc = "start"
    /\ target \in TargetArgs
    /\ format \in Formats
    /\ stdoutIsTerminal \in BOOLEAN
    /\ ninputs \in 1..MaxInputs
    /\ output = NoOutput
    /\ fs = InitFiles
    /\ stdout = <<>>
    /\ target_files = EmptyMap
    /\ ii = 0 /\ nsrc = 0 /\ si = 0
    /\ cur = NoSource
    /\ listed = {}
    /\ createFailed = FALSE
    /\ written = <<>> /\ wcalls = <<>> /\ lastData = <<>>
    /\ err = "None"
    /\ exit = Running
    /\ input = NoInput
    /\ NewIdle /\ MergeIdle /\ GatherIdle

envVars == <<format, target, stdoutIsTerminal, ninputs>>
\* history of the expansion, touched by IntoTargets only
histVars == <<listed>>

\* handler: shell.output()?, that is Output::new on the target path
GetOutput ==
    /\ pc = "start"
    /\ \E fail \in BOOLEAN :
         LET r == Output_new(target, format, fs, stdoutIsTerminal, fail)
         IN  /\ output' = r.out
             /\ fs' = r.fs
             /\ err' = r.err
             /\ createFailed' = (r.err = "Io")
             /\ pc' = IF r.err = "None" THEN "read" ELSE "failed"
    /\ UNCHANGED <<envVars, gatherVars, exit, input, histVars, stdout, target_files, ii, nsrc, si, cur, written, wcalls,
                   lastData, newVars, mergeVars>>

InputFormats == {"Json", "Yaml", "Unknown"}
DEFAULT_INPUT_FORMAT == "Yaml"

\* Extensions of the input paths; "" is a path without extension.
Extensions == {"", "json", "JSON", "yaml", "Yml", "txt"}

\* str::to_lowercase on the extensions at hand
to_lowercase(s) ==
    IF s = "JSON" THEN "json" ELSE IF s = "Yml" THEN "yml" ELSE s

\* InputFormat::from_extension
from_extension(ext) ==
    LET e == to_lowercase(ext)
    IN  IF e = "json" THEN "Json"
        ELSE IF e \in {"yaml", "yml"} THEN "Yaml"
        ELSE "Unknown"

\* Input::from_stdin and Input::from_file: the format of the Input
InputFormatOf(kind, ext) ==
    IF kind = "Stdin" THEN DEFAULT_INPUT_FORMAT ELSE from_extension(ext)

\* The inputs get_sources can return: standard input alone, or files.
InputShapes ==
    {[kind |-> "Stdin", ext |-> ""]} \cup {[kind |-> "File", ext |-> e] : e \in Extensions}

\* The documents an input may hold: the number of its lines, and whether the
\* document read from its first byte is a list of Sources in the format of
\* the input. An empty document is no list.
DocLines  == {0, 1, 2}
Documents == {d \in [lines : DocLines, valid : BOOLEAN] : d.lines = 0 => ~d.valid}

\* read_first_line: read_line on the reader of the Input, which takes the
\* first line out of that reader; the number of lines taken
read_first_line(lines) == IF lines > 0 THEN 1 ELSE 0

\* Input::new -> inspect_content: the lines left in the reader of the Input
\* when get_sources hands it to read_sources
inspect_content(lines) == lines - read_first_line(lines)

\* SourceFile::read_sources, one iteration of the loop over the inputs: the
\* match on input.format() picks the decoder, which reads from
\* input.mut_reader(), the reader inspect_content has read from. With nothing
\* left the decoder fails; what is left of a longer document decodes to n
\* Sources or fails.
ReadInput ==
    /\ pc = "read"
    /\ ii < ninputs
    /\ \E shape \in InputShapes, doc \in Documents, decodes \in BOOLEAN, n \in 0..MaxSources :
         LET infmt == InputFormatOf(shape.kind, shape.ext)
             left  == inspect_content(doc.lines)
             inp   == [kind |-> shape.kind, ext |-> shape.ext, decoder |-> "None",
                       lines |-> doc.lines, valid |-> doc.valid, received |-> 0]
         IN
         /\ shape.kind = "Stdin" => ninputs = 1
         /\ nsrc + n <= MaxSources
         /\ IF infmt = "Unknown"
            THEN /\ decodes /\ n = 0
                 /\ input' = inp
                 /\ err' = "UnsupportedInputFormat" /\ pc' = "failed" /\ nsrc' = nsrc
            ELSE /\ input' = [inp EXCEPT !.decoder = infmt, !.received = left]
                 /\ left = 0 => ~decodes
                 /\ IF ~decodes
                    THEN /\ n = 0
                         /\ err' = (IF infmt = "Json" THEN "SerdeJson" ELSE "SerdeYaml")
                         /\ pc' = "failed" /\ nsrc' = nsrc
                    ELSE /\ err' = err /\ pc' = "read" /\ nsrc' = nsrc + n
    /\ ii' = ii + 1
    /\ UNCHANGED <<envVars, gatherVars, exit, histVars, output, fs, stdout, target_files, si, cur,
                   createFailed, written, wcalls, lastData, newVars, mergeVars>>

\* read_sources returns Ok(()) after the last input
ReadDone ==
    /\ pc = "read"
    /\ ii = ninputs
    /\ pc' = "expand"
    /\ input' = NoInput
    /\ UNCHANGED <<envVars, gatherVars, exit, histVars, output, fs, stdout, target_files, ii, nsrc, si, cur,
                   createFailed, written, wcalls, lastData, err, newVars, mergeVars>>

\* SourceFile::into_targets, one iteration of the loop over self.sources:
\* sources[si] is drawn when the loop reaches it (the loop visits every
\* Source once, in order, and never looks ahead).
IntoTargets ==
    /\ pc = "expand"
    /\ si < nsrc
    /\ \E src \in Sources, failAt \in 0..MaxJobs :
         LET r == Source_into_targets(src, output, format, target_files, fs,
                                      stdoutIsTerminal, failAt)
         IN  /\ cur' = src
             /\ target_files' = r.files
             /\ fs' = r.fs
             /\ err' = r.err
             /\ createFailed' = (r.err = "Io")
             /\ pc' = IF r.err = "None" THEN "expand" ELSE "failed"
    /\ si' = si + 1
    /\ listed' = listed \cup Range(cur'.jobs)
    /\ UNCHANGED <<envVars, gatherVars, exit, input, output, stdout, ii, nsrc, written, wcalls, lastData,
                   newVars, mergeVars>>

\* the loop test of SourceFile::into_targets with an early exit
AllExpandedEarly == si >= 1 \/ si = nsrc

\* the loop of SourceFile::into_targets is over
AllExpanded == si = nsrc

\* into_targets returns Ok(()) and exporter calls target_files.write_all()
ExpandDone ==
    /\ pc = "expand"
    /\ AllExpanded
    /\ pc' = "write"
    /\ UNCHANGED <<envVars, gatherVars, exit, input, histVars, output, fs, stdout, target_files, ii, nsrc, si, cur,
                   createFailed, written, wcalls, lastData, err, newVars, mergeVars>>

\* what a writer error can be: a broken pipe only where stdout is a pipe
WriteOutcomes(out) ==
    {"Ok", "Io"} \cup (IF out.kind = "Stdout" /\ ~stdoutIsTerminal THEN {"BrokenPipe"} ELSE {})

\* TargetFiles::write_all, one iteration: TargetFile::write on the next entry
\* in key order. A failing write_all of the writer has transferred a proper
\* prefix of the buffer.
WriteEntry ==
    /\ pc = "write"
    /\ Len(wcalls) < Cardinality(DOMAIN target_files)
    /\ LET job  == SortedKeys(target_files)[Len(wcalls) + 1]
           tf   == target_files[job]
           data == Output_write(tf.output, job, tf.targets)
       IN  /\ wcalls' = Append(wcalls, job)
           /\ lastData' = data
           /\ \E outcome \in WriteOutcomes(tf.output), k \in 0..Len(data) :
                /\ (outcome = "Ok") <=> (k = Len(data))
                /\ LET sent == SubSeq(data, 1, k) IN
                   /\ IF tf.output.kind = "Stdout"
                      THEN /\ stdout' = stdout \o sent
                           /\ fs' = fs
                      ELSE /\ stdout' = stdout
                           /\ fs' = IF tf.output.kind = "File" /\ k > 0
                                    THEN [fs EXCEPT ![tf.output.path].data =
                                              WriteAt(@, tf.output.pos, sent)]
                                    ELSE fs
                   /\ target_files' =
                        [target_files EXCEPT ![job].output.pos =
                            IF tf.output.kind = "File" THEN @ + k ELSE @]
                /\ IF outcome = "Ok"
                   THEN /\ written' = Append(written, job)
                        /\ err' = err /\ pc' = "write"
                   ELSE /\ written' = written
                        /\ err' = outcome /\ pc' = "failed"
    /\ UNCHANGED <<envVars, gatherVars, exit, input, histVars, output, ii, nsrc, si, cur, createFailed, newVars, mergeVars>>

\* write_all returns Ok(()) and so does exporter
WriteAllDone ==
    /\ pc = "write"
    /\ Len(wcalls) = Cardinality(DOMAIN target_files)
    /\ pc' = "done"
    /\ UNCHANGED <<envVars, gatherVars, exit, input, histVars, output, fs, stdout, target_files, ii, nsrc, si, cur,
                   createFailed, written, wcalls, lastData, err, newVars, mergeVars>>

CODE_SUCCESS       == 0
CODE_RUNTIME_ERROR == 1

\* Error.code of the error the run returned, an Option<i32> as a set of at
\* most one code: every error of the run is built with CODE_RUNTIME_ERROR
\* but the write error of raw, which has no code.
ErrorCode ==
    IF err = "None" THEN {}
    ELSE IF err \in {"Io", "BrokenPipe"} /\ ~createFailed /\ wcalls # <<>>
              /\ ~target_files[wcalls[Len(wcalls)]].output.pretty
         THEN {}
    ELSE {CODE_RUNTIME_ERROR}

unwrap_or(opt, default) == IF opt = {} THEN default ELSE CHOOSE c \in opt : TRUE

\* handle_error without the arm for a broken pipe
handle_error_no_pipe_arm(e) ==
    IF e \in {"SerdeJson", "SerdeYaml"}
    THEN [exited |-> FALSE, code |-> 0, message |-> "Error while parsing file"]
    ELSE [exited |-> FALSE, code |-> 0, message |-> "Error"]

\* handle_error: a broken pipe ends the process at once with code 0 and
\* nothing printed, any other error is printed
handle_error(e) ==
    IF e = "BrokenPipe"
    THEN [exited |-> TRUE, code |-> CODE_SUCCESS, message |-> "None"]
    ELSE IF e \in {"SerdeJson", "SerdeYaml"}
    THEN [exited |-> FALSE, code |-> 0, message |-> "Error while parsing file"]
    ELSE [exited |-> FALSE, code |-> 0, message |-> "Error"]

\* exit_handler: handle_error, then exit with the code of the error or 1
exit_handler(e, code) ==
    LET h == handle_error(e)
    IN  IF h.exited THEN h
        ELSE [exited |-> TRUE, code |-> unwrap_or(code, 1), message |-> h.message]

\* main: handler(..).map_err(exit_handler), then std::process::exit(0)
Exit ==
    /\ pc \in {"failed", "done"}
    /\ ~exit.exited
    /\ exit' = IF pc = "failed" THEN exit_handler(err, ErrorCode)
               ELSE [exited |-> TRUE, code |-> CODE_SUCCESS, message |-> "None"]
    /\ UNCHANGED <<pc, envVars, gatherVars, histVars, input, output, fs, stdout, target_files, ii, nsrc, si, cur,
                   createFailed, written, wcalls, lastData, err, newVars, mergeVars>>

Next ==
    \/ GetOutput
    \/ ReadInput
    \/ ReadDone
    \/ IntoTargets
    \/ ExpandDone
    \/ WriteEntry
    \/ WriteAllDone
    \/ Exit

Spec == Init /\ [][Next]_vars

(***************************************************************************)
(* Claims on TargetFile::add_target (SpecMerge)                            *)
(***************************************************************************)
SameIdentity(g, h) == g.job = h.job /\ g.labels = h.labels

\* C1: after any sequence of add_target calls on one TargetFile, no two groups
\* of its group list have the same job and the same full label mapping.
C1_UniqueIdentity ==
    \A i \in DOMAIN self_targets : \A j \in DOMAIN self_targets :
        i # j => ~SameIdentity(self_targets[i], self_targets[j])

\* three calls were made, one of them merged into an existing group, and the
\* list holds two groups of the same job with different labels
C1_Witness ==
    /\ adds = 3
    /\ Len(self_targets) = 2
    /\ self_targets[1].job = self_targets[2].job
    /\ Len(self_targets[1].targets) = 3

\* the endpoints of `new` that are not in `old`, each once, in order of first
\* occurrence in `new`
FreshEndpoints(old, new) ==
    LET keep(i) == new[i] \notin Range(old) /\ \A k \in 1..(i - 1) : new[k] # new[i]
        F[i \in 0..Len(new)] ==
            IF i = 0 THEN <<>>
            ELSE IF keep(i) THEN Append(F[i - 1], new[i]) ELSE F[i - 1]
    IN  F[Len(new)]

\* C2: when add_target receives a candidate whose (job, labels) equals that of
\* an existing group, no group is created, every other group is left as it
\* was, and the existing group's endpoints become its old list followed by the
\* candidate's endpoints that were not present, in candidate order; adding a
\* group that is already in the list leaves the list unchanged.
C2_MergeUnion ==
    [][ \A i \in DOMAIN self_targets :
            (adds' = adds + 1 /\ SameIdentity(self_targets[i], cand'))
            => /\ Len(self_targets') = Len(self_targets)
               /\ \A k \in DOMAIN self_targets :
                    k # i => self_targets'[k] = self_targets[k]
               /\ SameIdentity(self_targets'[i], self_targets[i])
               /\ self_targets'[i].targets =
                    self_targets[i].targets
                        \o FreshEndpoints(self_targets[i].targets, cand'.targets)
               /\ (cand' = self_targets[i] => self_targets' = self_targets)
      ]_vars

\* contributions [a,b] then [b,c] with one identity gave [a,b,c]
C2_Witness ==
    /\ adds = 2
    /\ Len(self_targets) = 1
    /\ cand.targets = <<"b", "c">>
    /\ self_targets[1].targets = <<"a", "b", "c">>

(***************************************************************************)
(* Claims on TargetGroup::new (SpecNew)                                    *)
(***************************************************************************)
\* C3: every TargetGroup built by TargetGroup::new has a labels mapping that
\* contains the key "job" with the group's job as its value.
C3_JobLabelPresent ==
    pc = "ret" => /\ "job" \in DOMAIN result.labels
                  /\ result.labels["job"] = result.job

\* C4: TargetGroup::new writes labels["job"] only when the supplied mapping has
\* no entry under the key "job"; a "job" label already present keeps its
\* value, and every other label is unchanged.
C4_JobLabelOnlyIfAbsent ==
    pc = "ret" =>
        /\ "job" \in DOMAIN args.labels => result.labels = args.labels
        /\ \A k \in DOMAIN args.labels :
             k # "job" => (k \in DOMAIN result.labels /\ result.labels[k] = args.labels[k])
        /\ DOMAIN result.labels \subseteq (DOMAIN args.labels) \cup {"job"}

(***************************************************************************)
(* Claims on one run (Spec)                                                *)
(***************************************************************************)
DistinctNonEmpty(jobs) ==
    /\ jobs # <<>>
    /\ "" \notin Range(jobs)
    /\ \A i \in DOMAIN jobs : \A j \in DOMAIN jobs : i # j => jobs[i] # jobs[j]

\* C5: expanding one Source whose jobs are distinct non-empty names into an
\* empty registry gives exactly one TargetFile per listed job, each with
\* exactly one TargetGroup whose labels are the Source's labels plus
\* job=<that job> and whose targets are the Source's targets.
C5_FanOut ==
    (si = 1 /\ ~createFailed /\ DistinctNonEmpty(cur.jobs)) =>
        /\ DOMAIN target_files = Range(cur.jobs)
        /\ \A j \in DOMAIN target_files :
             /\ target_files[j].job = j
             /\ target_files[j].targets =
                  <<[job |-> j, labels |-> Insert(cur.labels, "job", j),
                     targets |-> cur.targets]>>

Violation(src) == src.jobs = <<>> \/ "" \in Range(src.jobs)

\* C6: a Source with an empty job list, or with an empty string among its job
\* names, makes the expansion that reaches the violation fail with
\* InvalidInputSource (the jobs listed before an empty name have been
\* expanded, and only a File::create that failed on the way there puts an Io
\* error in its place); from then on no Source is expanded and write_all is
\* never invoked.
C6_InvalidSourceAborts ==
    /\ [](  (si > 0 /\ Violation(cur)) =>
              /\ pc = "failed"
              /\ wcalls = <<>>
              /\ err = "InvalidInputSource" \/ (createFailed /\ err = "Io")
              /\ cur.jobs = <<>> => err = "InvalidInputSource"
              /\ err = "InvalidInputSource" =>
                   \A i \in DOMAIN cur.jobs :
                       (\A k \in 1..i : cur.jobs[k] # "") => cur.jobs[i] \in DOMAIN target_files )
    /\ [][ (si > 0 /\ Violation(cur)) => UNCHANGED <<si, cur, target_files, wcalls, err>> ]_vars

\* the second Source lists a job and then an empty name: the job was expanded,
\* the run failed
C6_Witness ==
    /\ si = 2
    /\ cur.jobs = <<"node", "">>
    /\ err = "InvalidInputSource"
    /\ "node" \in DOMAIN target_files
    /\ pc = "failed"

\* C7: a run that fails on an invalid Source or on a decode failure has
\* created, truncated or written no file of the output destination.
C7_NoOutputOnFailure ==
    (pc = "failed" /\ err \in {"InvalidInputSource", "SerdeJson", "SerdeYaml"}) =>
        (fs = InitFiles /\ stdout = <<>>)

KeyRank(j) == CHOOSE i \in 1..Len(JobOrder) : JobOrder[i] = j

IsPrefix(s, t) == Len(s) <= Len(t) /\ SubSeq(t, 1, Len(s)) = s

RECURSIVE WrittenBytes(_, _)
WrittenBytes(jobs, files) ==
    IF jobs = <<>> THEN <<>>
    ELSE Output_write(files[Head(jobs)].output, Head(jobs), files[Head(jobs)].targets)
            \o WrittenBytes(Tail(jobs), files)

C9_WrittenOnceAtEnd ==
    /\ \A j \in DOMAIN target_files : Cardinality({i \in DOMAIN wcalls : wcalls[i] = j}) <= 1
    /\ pc = "done" =>
         /\ written = wcalls
         /\ \A j \in DOMAIN target_files :
              Cardinality({i \in DOMAIN written : written[i] = j}) = 1
    /\ wcalls # <<>> => (ii = ninputs /\ si = nsrc /\ pc \in {"write", "done", "failed"})

C9_Witness ==
    /\ pc = "done"
    /\ Len(written) = 2
    /\ si = 2
    /\ ii = 2

PrettyEncoding(f)  == IF f = "Json" THEN "json_pretty" ELSE "yaml"
CompactEncoding(f) == IF f = "Json" THEN "json" ELSE "yaml"

\* C10: Output.write adds the "<job>:" line and the trailing newline exactly
\* when the sink is Stdout and standard output is a terminal; a File sink is
\* written pretty without framing, Stdout that is no terminal is written in
\* the compact encoding without framing.
C10_Framing ==
    wcalls # <<>> =>
        LET job    == wcalls[Len(wcalls)]
            o      == target_files[job].output
            n      == Len(lastData)
            framed == lastData[1] = FrameJob(job) /\ lastData[n] = FrameEnd
            marks  == {i \in 1..n : lastData[i].t \in {"job_line", "newline"}}
            body   == {i \in 1..n : lastData[i].t \in {"open", "group", "close"}}
        IN  /\ framed <=> (o.kind = "Stdout" /\ stdoutIsTerminal)
            /\ framed => marks = {1, n}
            /\ ~framed => marks = {}
            /\ Cardinality(body) = Len(target_files[job].targets) + 2
            /\ o.kind = "File" =>
                 (~framed /\ \A i \in body : lastData[i].enc = PrettyEncoding(o.format))
            /\ (o.kind = "Stdout" /\ ~stdoutIsTerminal) =>
                 (~framed /\ \A i \in body : lastData[i].enc = CompactEncoding(o.format))
            /\ o.kind \in {"File", "Stdout"}

\* a JSON write to a terminal carried the job line
C10_Witness ==
    /\ wcalls = <<"env", "node">>
    /\ target = StdoutPath
    /\ stdoutIsTerminal
    /\ format = "Json"
    /\ lastData[1] = FrameJob("node")
    /\ lastData[2].enc = "json_pretty"


\* C11: with an existing directory as output destination every job of the
\* registry has its own File sink at <directory>/<job>_targets.<ext>, ext
\* being json for JSON and yml for YAML; a file that was written holds the
\* groups of its own job and nothing else, and nothing is written anywhere
\* else: not through the directory sink, not to standard output, not to files
\* of other names.
C11_DirectoryFanOut ==
    output.kind = "Directory" =>
        /\ \A j \in DOMAIN target_files :
             LET tf == target_files[j]
                 p  == output.path \o "/" \o j \o "_targets."
                           \o (IF format = "Json" THEN "json" ELSE "yml")
             IN  /\ tf.output.kind = "File"
                 /\ tf.output.path = p
                 /\ \A i \in DOMAIN tf.targets : tf.targets[i].job = j
                 /\ j \in Range(written) =>
                      /\ Len(fs[p].data) = Len(tf.targets) + 2
                      /\ fs[p].data[1].t = "open"
                      /\ fs[p].data[Len(fs[p].data)].t = "close"
                      /\ \A i \in DOMAIN tf.targets :
                           /\ fs[p].data[i + 1].t = "group"
                           /\ fs[p].data[i + 1].labels = tf.targets[i].labels
                           /\ fs[p].data[i + 1].targets = tf.targets[i].targets
        /\ pc = "done" => Range(written) = DOMAIN target_files
        /\ \A p \in FilePaths :
             (\A j \in DOMAIN target_files : target_files[j].output.path # p)
                 => fs[p] = InitFiles[p]
        /\ stdout = <<>>
        /\ output.pos = 0

\* two jobs, YAML: both files written, each under its own name
C11_Witness ==
    /\ pc = "done"
    /\ output.kind = "Directory"
    /\ format = "Yaml"
    /\ written = <<"env", "node">>
    /\ fs["dir/env_targets.yml"].data # fs["dir/node_targets.yml"].data
    /\ Len(fs["dir/node_targets.yml"].data) > 2


\* C12: after expanding any sequence of valid Sources the registry's key set
\* is the set of job names those Sources listed, every key maps to the
\* TargetFile of that job, and a TargetFile once in the registry stays: a
\* later Source naming the job keeps its sink, its groups and their endpoints,
\* and only adds to them.
C12_RegistryKeys ==
    /\ []( /\ (err # "InvalidInputSource" /\ ~createFailed) => DOMAIN target_files = listed
           /\ \A j \in DOMAIN target_files : target_files[j].job = j )
    /\ [][ \A j \in DOMAIN target_files :
             /\ j \in DOMAIN target_files'
             /\ target_files'[j].job = target_files[j].job
             /\ target_files'[j].output.path = target_files[j].output.path
             /\ Len(target_files'[j].targets) >= Len(target_files[j].targets)
             /\ \A i \in DOMAIN target_files[j].targets :
                  /\ SameIdentity(target_files'[j].targets[i], target_files[j].targets[i])
                  /\ IsPrefix(target_files[j].targets[i].targets,
                              target_files'[j].targets[i].targets) ]_vars

\* the second Source names the jobs of the first again, with other labels:
\* both files hold two groups
C12_Witness ==
    /\ si = 2
    /\ cur.jobs = <<"node", "env">>
    /\ listed = {"env", "node"}
    /\ DOMAIN target_files = {"env", "node"}
    /\ Len(target_files["node"].targets) = 2
    /\ Len(target_files["env"].targets) = 2


(***************************************************************************)
(* Claims on the contributions to one TargetFile (SpecMerge)               *)
(***************************************************************************)
Ident(g) == [job |-> g.job, labels |-> g.labels]
Idents(groups) == [i \in DOMAIN groups |-> Ident(groups[i])]

\* C13: the groups of a TargetFile appear in the order in which their
\* identity was first contributed (contributions in the order of the
\* add_target calls, which SourceFile::into_targets makes Source by Source and
\* Source::into_targets job by job); a merge changes neither the position of a
\* group nor the relative order of the endpoints a group already has.
C13_FirstSeenOrder ==
    /\ [](Idents(self_targets) = FreshEndpoints(<<>>, Idents(contribs)))
    /\ [][ \A i \in DOMAIN self_targets :
             /\ i \in DOMAIN self_targets'
             /\ Ident(self_targets'[i]) = Ident(self_targets[i])
             /\ IsPrefix(self_targets[i].targets, self_targets'[i].targets) ]_vars

\* identity A, then B, then A again: A stays first and takes the new endpoint
C13_Witness ==
    /\ adds = 3
    /\ Len(self_targets) = 2
    /\ Ident(contribs[3]) = Ident(contribs[1])
    /\ Ident(contribs[2]) # Ident(contribs[1])
    /\ contribs[1].targets = <<"a", "b">>
    /\ self_targets[1].targets = <<"a", "b", "c">>


(***************************************************************************)
(* Claims on how the process ends (Spec)                                   *)
(***************************************************************************)
\* a write of write_all has failed: TargetFile::write was called and returned Err
WriteFailed == pc = "failed" /\ Len(wcalls) > Len(written)

\* C14: when a write fails with a broken pipe the process exits with code 0
\* and prints no error message; when a write fails with any other I/O error
\* the error is printed and the exit code is not 0.
C14_BrokenPipeSilent ==
    (exit.exited /\ WriteFailed) =>
        IF err = "BrokenPipe"
        THEN exit.code = 0 /\ exit.message = "None"
        ELSE exit.code # 0 /\ exit.message # "None"

\* the pipe broke during the second write, after part of the buffer was sent
C14_Witness ==
    /\ exit.exited /\ WriteFailed
    /\ err = "BrokenPipe"
    /\ Len(written) = 1
    /\ stdout # <<>>
    /\ exit.code = 0


(***************************************************************************)
(* Claims on the inputs (Spec)                                             *)
(***************************************************************************)
\* the format of the Input cannot be told from its path
Undetectable(i) ==
    i.kind = "Stdin" \/ (i.kind = "File" /\ to_lowercase(i.ext) \notin {"json", "yaml", "yml"})

\* C15: an input whose format cannot be detected (standard input, or a file
\* whose extension is missing or is none of json, yaml, yml in any case) is
\* decoded with the YAML decoder and does not fail as an unsupported format.
C15_UndetectableIsYaml ==
    Undetectable(input) => (input.decoder = "Yaml" /\ err # "UnsupportedInputFormat")


(***************************************************************************)
(* Cli::inputs: the inputs of a run (SpecInputs)                           *)
(***************************************************************************)
StdinPath   == "-"
SourceFilePath == "f"
SourceDirs  == {"d", "d/s"}
SourceFiles == {"f", "d/a", "d/s/b"}
SourceArgs  == {StdinPath, SourceFilePath, "d"}

\* read_dir: the entries of a directory
Entries(dir) == IF dir = "d" THEN {"d/a", "d/s"} ELSE {"d/s/b"}

\* read_dir yields the entries in an order the platform chooses
Orders(S) == {o \in [1..Cardinality(S) -> S] : \A i, j \in DOMAIN o : o[i] = o[j] => i = j}

\* what Input::inspect_content finds in the first line
ContentTypes == {"text", "binary", "empty"}

\* Input::inspect_content then Input::is_binary: content_type stays None for
\* an empty first line
is_binary(path) == firstLine[path] = "binary"

\* Input::new on a path that is no directory: File::open or metadata fails
\* (`fail`), else the Input with its inspected content type
Input_new(path, fail) ==
    IF path # StdinPath /\ fail
    THEN [err |-> "Io", input |-> NoInput]
    ELSE [err |-> "None",
          input |-> [kind |-> IF path = StdinPath THEN "Stdin" ELSE "File",
                     path |-> path, is_binary |-> is_binary(path)]]

InitInputs ==
    /\ pc = "get_sources"
    /\ source \in SourceArgs
    /\ firstLine \in [SourceFiles \cup {StdinPath} -> ContentTypes]
    /\ stdinIsTerminal \in BOOLEAN
    /\ dirReadable \in BOOLEAN
    /\ todo = <<>> /\ inputs = <<>>
    /\ RunIdle /\ NewIdle /\ MergeIdle

idleVars == <<newVars, mergeVars, output, format, target, stdoutIsTerminal, fs, stdout,
              target_files, ninputs, ii, nsrc, si, cur, listed, createFailed, written,
              wcalls, lastData, exit, input>>
gatherEnv == <<source, firstLine, stdinIsTerminal, dirReadable>>

\* get_sources up to the call of from_dir: Input::new(path) comes first, for
\* a directory too, and its inspect_content reads a line from the handle
GetSources ==
    /\ pc = "get_sources"
    /\ \E fail \in BOOLEAN :
         IF source \in SourceDirs
         THEN IF fail \/ ~dirReadable
              THEN /\ err' = "Io" /\ pc' = "failed" /\ UNCHANGED <<todo, inputs>>
              ELSE \E o \in Orders(Entries(source)) :
                     /\ todo' = o /\ pc' = "from_dir" /\ UNCHANGED <<err, inputs>>
         ELSE LET r == Input_new(source, fail)
              IN  IF r.err # "None"
                  THEN /\ err' = r.err /\ pc' = "failed" /\ UNCHANGED <<todo, inputs>>
                  ELSE IF r.input.kind = "File" /\ r.input.is_binary
                  THEN /\ err' = "InvalidInputSource" /\ pc' = "failed"
                       /\ UNCHANGED <<todo, inputs>>
                  ELSE /\ inputs' = <<r.input>> /\ pc' = "validate"
                       /\ UNCHANGED <<todo, err>>
    /\ UNCHANGED <<gatherEnv, idleVars>>

\* from_dir, one iteration of the loop over the entries: a directory is
\* walked at once (its entries come before the remaining ones), a file
\* becomes an Input and is pushed
FromDirEntry ==
    /\ pc = "from_dir"
    /\ todo # <<>>
    /\ LET path == Head(todo) IN
       \E fail \in BOOLEAN :
         IF path \in SourceDirs
         THEN IF fail
              THEN /\ err' = "Io" /\ pc' = "failed" /\ UNCHANGED <<todo, inputs>>
              ELSE \E o \in Orders(Entries(path)) :
                     /\ todo' = o \o Tail(todo) /\ UNCHANGED <<pc, err, inputs>>
         ELSE LET r == Input_new(path, fail)
              IN  IF r.err # "None"
                  THEN /\ err' = r.err /\ pc' = "failed" /\ UNCHANGED <<todo, inputs>>
                  ELSE /\ inputs' = Append(inputs, r.input) /\ todo' = Tail(todo)
                       /\ UNCHANGED <<pc, err>>
    /\ UNCHANGED <<gatherEnv, idleVars>>

\* from_dir and get_sources return the collected inputs
FromDirDone ==
    /\ pc = "from_dir"
    /\ todo = <<>>
    /\ pc' = "validate"
    /\ UNCHANGED <<gatherEnv, idleVars, todo, inputs, err>>

\* Cli::inputs after get_sources: no input at all and terminal input are refused
ValidateInputs ==
    /\ pc = "validate"
    /\ IF inputs = <<>>
       THEN err' = "InvalidInputSource" /\ pc' = "failed"
       ELSE IF Len(inputs) = 1 /\ inputs[1].kind = "Stdin" /\ stdinIsTerminal
       THEN err' = "Msg" /\ pc' = "failed"
       ELSE err' = err /\ pc' = "done"
    /\ UNCHANGED <<gatherEnv, idleVars, todo, inputs>>

NextInputs ==
    \/ GetSources
    \/ FromDirEntry
    \/ FromDirDone
    \/ ValidateInputs

SpecInputs == InitInputs /\ [][NextInputs]_vars

\* C16: under a directory source path, a binary file found at any depth of
\* the traversal makes the run fail with InvalidInputSource, as a binary file
\* given directly does: no binary file found by the traversal becomes an
\* Input of the run.
C16_BinaryInDirRejected ==
    source \in SourceDirs => \A i \in DOMAIN inputs : ~inputs[i].is_binary

(***************************************************************************)
(* Claims on the encoding of a group list (SpecMerge)                      *)
(***************************************************************************)
Encodings == {"json", "json_pretty", "yaml"}

\* From<TargetHelper> for TargetGroup: labels and targets as read, job from
\* labels["job"], "unknown" without that label
From_TargetHelper(labels, targets) ==
    [job     |-> IF "job" \in DOMAIN labels THEN labels["job"] ELSE "unknown",
     labels  |-> labels,
     targets |-> targets]

\* serde_json::from_str / serde_yaml::from_str of a Vec<TargetGroup>: the
\* elements between the opening and the closing of the list
from_str(data) ==
    [i \in 1..(Len(data) - 2) |-> From_TargetHelper(data[i + 1].labels, data[i + 1].targets)]

\* C17: serializing the group list of a TargetFile, in any encoding, and
\* deserializing the result yields the list itself: the same job, labels and
\* targets per group, in the same order.
C17_RoundTrip ==
    \A enc \in Encodings : from_str(to_string(self_targets, enc)) = self_targets


(***************************************************************************)
(* Claims on the endpoints of a group (SpecMerge)                          *)
(***************************************************************************)
NoRepeat(s) == \A k, l \in DOMAIN s : s[k] = s[l] => k = l

\* the first contribution with the identity of group g
FirstContribution(g) ==
    contribs[CHOOSE k \in DOMAIN contribs :
                 /\ SameIdentity(contribs[k], g)
                 /\ \A h \in 1..(k - 1) : ~SameIdentity(contribs[h], g)]

\* C18 as stated: after any sequence of add_target calls no group's endpoint
\* list holds the same endpoint twice, whatever the contributed lists are.
C18_NoDuplicateEndpoints ==
    \A i \in DOMAIN self_targets : NoRepeat(self_targets[i].targets)

\* C18 amended: a group's endpoint list is the target list of the first
\* contribution of its identity, kept as it came (repeats included), followed
\* by merged endpoints that are pairwise distinct and not in that first list;
\* merging adds no repeat.
C18_MergeAddsNoDuplicate ==
    \A i \in DOMAIN self_targets :
        LET g     == self_targets[i]
            first == FirstContribution(g).targets
            rest  == SubSeq(g.targets, Len(first) + 1, Len(g.targets))
        IN  /\ IsPrefix(first, g.targets)
            /\ NoRepeat(rest)
            /\ Range(rest) \cap Range(first) = {}

\* [c,c] came first and stayed; [b,c] merged into it added b only
C18_Witness ==
    /\ adds >= 2
    /\ \E i \in DOMAIN self_targets : self_targets[i].targets = <<"c", "c", "b">>


\* the endpoints contributed under the identity of group g
Contributed(g) ==
    UNION {Range(contribs[k].targets) :
               k \in {h \in DOMAIN contribs : SameIdentity(contribs[h], g)}}

\* C19: for every job and label mapping, the endpoints of the group with that
\* identity are the union of the target lists of exactly the contributions
\* with that job and that final label mapping: none is lost, none comes from
\* a contribution of another identity; every contribution has its group.
C19_EndpointUnion ==
    /\ \A i \in DOMAIN self_targets :
         Range(self_targets[i].targets) = Contributed(self_targets[i])
    /\ \A k \in DOMAIN contribs :
         \E i \in DOMAIN self_targets : SameIdentity(self_targets[i], contribs[k])

\* one job under two label mappings: the first mapping was contributed twice
\* and holds the union, the second holds its own endpoints only
C19_Witness ==
    /\ adds = 3
    /\ Len(self_targets) = 2
    /\ SameIdentity(contribs[3], contribs[1])
    /\ contribs[2].job = contribs[1].job
    /\ contribs[2].labels # contribs[1].labels
    /\ contribs[1].targets = <<"a", "b">>
    /\ contribs[2].targets = <<"a">>
    /\ contribs[3].targets = <<"b", "c">>
    /\ self_targets[2].targets = <<"a">>


(***************************************************************************)
(* Claims on a single output file (Spec)                                   *)
(***************************************************************************)
\* the sequence `data` occurs in `fileData` as a contiguous run
Occurs(data, fileData) ==
    \E off \in 0..Len(fileData) :
        /\ off + Len(data) <= Len(fileData)
        /\ SubSeq(fileData, off + 1, off + Len(data)) = data

\* C20: when the destination is one regular file and the batch names two or
\* more jobs, after a successful write_all the file holds the serialized
\* groups of every job: no TargetFile has truncated or overwritten what was
\* written for another job.
C20_SingleFileHoldsAllJobs ==
    (pc = "done" /\ output.kind = "File" /\ Cardinality(DOMAIN target_files) >= 2) =>
        \A j \in DOMAIN target_files :
            Occurs(Output_write(target_files[j].output, j, target_files[j].targets),
                   fs[output.path].data)


(***************************************************************************)
(* Claims on the stream read_sources decodes (Spec)                        *)
(***************************************************************************)
\* C21: the decoder of read_sources receives every input document in full
\* from its first byte; the first-line read of inspect_content takes nothing
\* out of the stream, so a valid one-line document decodes to its Sources.
C21_DecoderGetsWholeDocument ==
    input.decoder # "None" =>
        /\ input.received = input.lines
        /\ (input.lines = 1 /\ input.valid) => err \notin {"SerdeJson", "SerdeYaml"}
====
